---- MODULE Spec2Model ----
(***************************************************************************)
(* Model of src/scraper.py: the MAG dashboard scraper.                     *)
(*                                                                         *)
(*   clean_number      a pure function on text, modelled on sequences of   *)
(*                     one-character strings                               *)
(*   scrape_dashboard  one GET, the link strategy, the full-text regex     *)
(*                     strategy, the validation of the result              *)
(*   save_to_json      the snapshot written for the frontend               *)
(*   main              the exit status of the run                          *)
(*                                                                         *)
(* Spec      is one run of main().                                         *)
(* SpecClean applies clean_number to one text.                             *)
(***************************************************************************)
EXTENDS Integers, Sequences, FiniteSets

VARIABLES
    pc,                 \* Spec: where the run is (see Next)
    transportFails,     \* Spec: how many requests the transport fails before it answers
    attempts,           \* Spec: calls of session.get made so far
    delays,             \* Spec: the backoff delays slept so far
    response,           \* Spec: the answer to the last request
    fault,              \* Spec: the exception raised inside scrape_dashboard, or "none"
    propagated,         \* Spec: whether that exception left scrape_dashboard
    datos,              \* Spec: scrape_dashboard's dict, key -> value
    cur,                \* Spec: the link element the loop handled last
    linkIdx,            \* Spec: link elements handled so far
    valores_obtenidos,  \* Spec: the count of non-None values (lines 114, 142)
    regexInvoked,       \* Spec: whether "Estrategia 2" ran
    regexIdx,           \* Spec: position in patterns.items()
    debugWritten,       \* Spec: whether debug_page.html was written
    ret,                \* Spec: what scrape_dashboard returned to main
    saved,              \* Spec: "none", or save_to_json's outcome "ok" / "failed"
    snapshot,           \* Spec: the content of mercado_agroganadero.json
    exitStatus,         \* Spec: the argument of sys.exit, -1 while running
    text,               \* SpecClean: the argument of clean_number
    result,             \* SpecClean: what clean_number returned
    cpc                 \* SpecClean: "call" before the call, "done" after it

\* ------------------------------------------------------------------ bounds

\* Longest text enumerated as an argument of clean_number.
MaxLen == 4

\* Most link elements a document holds.
MaxLinks == 4

\* Most requests the transport fails before it answers.
MaxTransportFails == 2

\* ------------------------------------------------------------------ values

\* A Python value of a field: None, an int n, or a float n / 10^s.
\* t = "text" is the original text handed back (a lenient policy).
None == [t |-> "none", n |-> 0, s |-> 0]

IntValue(n) == [t |-> "int", n |-> n, s |-> 0]

RECURSIVE Normalize(_, _)
\* A float has one value whatever its trailing zeros: 1.50 = 1.5.
Normalize(n, s) ==
    IF s > 0 /\ n % 10 = 0 THEN Normalize(n \div 10, s - 1) ELSE [n |-> n, s |-> s]

FloatValue(n, s) ==
    LET r == Normalize(n, s) IN [t |-> "float", n |-> r.n, s |-> r.s]

\* ------------------------------------------------------------ clean_number

Digits == {"0", "1", "2", "3", "4", "5", "6", "7", "8", "9"}

DigitVal(c) ==
    CASE c = "0" -> 0 [] c = "1" -> 1 [] c = "2" -> 2 [] c = "3" -> 3
      [] c = "4" -> 4 [] c = "5" -> 5 [] c = "6" -> 6 [] c = "7" -> 7
      [] c = "8" -> 8 [] c = "9" -> 9

IsSpace(c) == c \in {" ", "\n", "\t"}

\* str.strip(): leading and trailing whitespace removed.
Strip(s) ==
    LET keep == {i \in 1..Len(s) : ~IsSpace(s[i])}
        lo == CHOOSE i \in keep : \A j \in keep : i <= j
        hi == CHOOSE i \in keep : \A j \in keep : j <= i
    IN  IF keep = {} THEN <<>> ELSE SubSeq(s, lo, hi)

\* The character class kept by re.sub(r'[^\d.,\-]', '', ...).
Allowed(c) == c \in Digits \cup {".", ",", "-"}

ReSub(s) == SelectSeq(s, Allowed)

NotDot(c) == c # "."

\* cleaned.replace('.', '').replace(',', '.')
ReplaceSeparators(s) ==
    LET noDots == SelectSeq(s, NotDot)
    IN  [i \in 1..Len(noDots) |-> IF noDots[i] = "," THEN "." ELSE noDots[i]]

HasDot(s) == \E i \in 1..Len(s) : s[i] = "."

RECURSIVE DigitsValue(_)
\* The number a sequence of digits writes.
DigitsValue(ds) ==
    IF ds = <<>> THEN 0
    ELSE DigitsValue(SubSeq(ds, 1, Len(ds) - 1)) * 10 + DigitVal(ds[Len(ds)])

ValueError == [t |-> "ValueError", n |-> 0, s |-> 0]

Negative(s) == Len(s) >= 1 /\ s[1] = "-"

Unsigned(s) == IF Negative(s) THEN SubSeq(s, 2, Len(s)) ELSE s

\* int(cleaned): an optional sign and at least one digit, or ValueError.
ParseInt(s) ==
    LET body == Unsigned(s)
    IN  IF Len(body) >= 1 /\ \A i \in 1..Len(body) : body[i] \in Digits
        THEN IntValue((IF Negative(s) THEN -1 ELSE 1) * DigitsValue(body))
        ELSE ValueError

\* float(cleaned): an optional sign, digits around exactly one point and at
\* least one digit, or ValueError.
ParseFloat(s) ==
    LET body == Unsigned(s)
        dots == {i \in 1..Len(body) : body[i] = "."}
        ds   == SelectSeq(body, NotDot)
        dot  == CHOOSE i \in dots : TRUE
    IN  IF Cardinality(dots) = 1 /\ Len(ds) >= 1
           /\ \A i \in 1..Len(ds) : ds[i] \in Digits
        THEN FloatValue((IF Negative(s) THEN -1 ELSE 1) * DigitsValue(ds),
                        Len(body) - dot)
        ELSE ValueError

\* The lenient policy: the original text is handed back.
OnParseErrorLenient(original) == [t |-> "text", n |-> 0, s |-> 0]

\* What the except clause of clean_number returns (lines 40-41), with the
\* original text at hand: the code returns None.
OnParseError(original) == None

clean_number(txt) ==
    IF txt = <<>> THEN None
    ELSE LET cleaned == ReplaceSeparators(ReSub(Strip(txt)))
             parsed  == IF HasDot(cleaned) THEN ParseFloat(cleaned)
                        ELSE ParseInt(cleaned)
         IN  IF parsed = ValueError THEN OnParseError(txt) ELSE parsed

\* Texts of the examples.
Text_1_234_56 == <<"1", ".", "2", "3", "4", ",", "5", "6">>
Text_1_234 == <<"1", ".", "2", "3", "4">>
Text_abc == <<"a", "b", "c">>
Text_7 == <<"7">>

\* ------------------------------------------------------------ the document

\* The keys of datos, in the order of the dict literal (lines 56-65).  The
\* seventh key is written 'ÍNDICE ARREND.' in the source.
KeyOrder ==
    <<"CAMIONES", "CABEZAS", "CAB.SEMANA", "OP", "INMAG", "IGMAG",
      "INDICE ARREND.", "DTe a MAG">>

Keys == {KeyOrder[i] : i \in 1..Len(KeyOrder)}

NoField == "no field"

AllNone == [k \in Keys |-> None]

\* str.upper() on the words the labels are made of.
Upper(w) ==
    CASE w = "Cabezas" -> "CABEZAS"
      [] w = "semana" -> "SEMANA"
      [] w = "DTe" -> "DTE"
      [] w = "a" -> "A"
      [] w = "op" -> "OP"
      [] w = "Inmag" -> "INMAG"
      [] OTHER -> w

\* keyword in word, for the upper-case words of the labels.
InWord(keyword, w) ==
    \/ w = keyword
    \/ keyword = "MAG" /\ w \in {"INMAG", "IGMAG"}
    \/ keyword = "ARREND" /\ w = "ARREND."

\* A label is the sequence of its words.  lines[1].upper()
UpperLabel(label) == [i \in 1..Len(label) |-> Upper(label[i])]

\* keyword in label (label already upper-case)
In(keyword, label) == \E i \in 1..Len(label) : InWord(keyword, label[i])

\* The elif chain of lines 88-111 without the negative condition of line 91
\* ('SEMANA' not in label).
FieldForNoSemanaTest(label) ==
    IF In("CAMIONES", label) THEN "CAMIONES"
    ELSE IF In("CABEZAS", label) THEN "CABEZAS"
    ELSE IF In("SEMANA", label) THEN "CAB.SEMANA"
    ELSE IF label = <<"OP">> THEN "OP"
    ELSE IF In("INMAG", label) /\ ~In("IGMAG", label) THEN "INMAG"
    ELSE IF In("IGMAG", label) THEN "IGMAG"
    ELSE IF In("ARREND", label) THEN "INDICE ARREND."
    ELSE IF In("DTE", label) /\ In("MAG", label) THEN "DTe a MAG"
    ELSE NoField

\* The elif chain of lines 88-111: the key a label (upper-case) is stored
\* under, or NoField.
FieldFor(label) ==
    IF In("CAMIONES", label) THEN "CAMIONES"
    ELSE IF In("CABEZAS", label) /\ ~In("SEMANA", label) THEN "CABEZAS"
    ELSE IF In("SEMANA", label) THEN "CAB.SEMANA"
    ELSE IF label = <<"OP">> THEN "OP"
    ELSE IF In("INMAG", label) /\ ~In("IGMAG", label) THEN "INMAG"
    ELSE IF In("IGMAG", label) THEN "IGMAG"
    ELSE IF In("ARREND", label) THEN "INDICE ARREND."
    ELSE IF In("DTE", label) /\ In("MAG", label) THEN "DTe a MAG"
    ELSE NoField

\* The second lines of the link elements of the documents explored.
Labels ==
    { <<"CAMIONES">>, <<"Cabezas">>, <<"CABEZAS", "SEMANA">>,
      <<"CAB.", "semana">>, <<"CAMIONES", "CABEZAS">>,
      <<"CAMIONES", "CABEZAS", "SEMANA">>,
      <<"OP">>, <<"op">>, <<"OP", "HOY">>,
      <<"Inmag">>, <<"IGMAG">>, <<"INMAG", "IGMAG">>,
      <<"INDICE", "ARREND.">>, <<"DTe", "a", "MAG">>, <<"DTE">>, <<"OTRO">> }

\* The first lines of the link elements of the documents explored.
FirstLines == {Text_7, Text_1_234, Text_abc}

\* A link element <a href="javascript:void(0);">: n is the number of
\* non-empty lines of its text, first and second are lines[0] and lines[1].
Links ==
    {[n |-> 0, first |-> <<>>, second |-> <<>>]}
        \cup {[n |-> 1, first |-> f, second |-> <<>>] : f \in FirstLines}
        \cup {[n |-> 2, first |-> f, second |-> l] : f \in FirstLines, l \in Labels}

NoLink == [n |-> 0, first |-> <<>>, second |-> <<>>]

\* The body of the loop over the links (lines 73-111): datos after the link.
LinkBody(d, link) ==
    IF link.n = 0 THEN d
    ELSE IF link.n >= 2
         THEN LET numero == clean_number(link.first)
                  key == FieldFor(UpperLabel(link.second))
              IN  IF numero # None /\ key # NoField
                  THEN [d EXCEPT ![key] = numero]
                  ELSE d
         ELSE d

\* sum(1 for v in datos.values() if v is not None)
Count(d) == Cardinality({k \in Keys : d[k] # None})

\* The threshold of line 116.
RegexThreshold == 4

NeedsRegexAtMost(n) == n <= RegexThreshold

\* valores_obtenidos < 4 (line 116)
NeedsRegex(n) == n < RegexThreshold

\* ------------------------------------------------------- the regex strategy

Group_3 == <<"3">>
Group_dot == <<".">>
Group_1c5 == <<"1", ",", "5">>
Group_comma == <<",">>

\* What group(1) of each pattern of lines 121-130 can hold: (\d+) digits,
\* ([\d.]+) digits and points, ([\d,]+) digits and commas.
Groups(key) ==
    CASE key \in {"CAMIONES", "CABEZAS", "OP"} -> {Group_3}
      [] key \in {"CAB.SEMANA", "DTe a MAG"} -> {Group_3, Group_dot}
      [] key \in {"INMAG", "IGMAG", "INDICE ARREND."} -> {Group_1c5, Group_comma}

NoMatch == [found |-> FALSE, group |-> <<>>]

\* re.search(pattern, all_text, re.IGNORECASE): no match, or a match.
Searches(key) == {NoMatch} \cup {[found |-> TRUE, group |-> g] : g \in Groups(key)}

RegexFillsAlways(d, key) == TRUE

\* if datos[key] is None (line 133)
RegexFills(d, key) == d[key] = None

\* One turn of the loop of lines 132-139: datos after the pattern of key.
RegexBody(d, key, m) ==
    IF RegexFills(d, key) /\ m.found /\ clean_number(m.group) # None
    THEN [d EXCEPT ![key] = clean_number(m.group)]
    ELSE d

\* ------------------------------------------------------------------ the run

FailureResponses ==
    {[exc |-> "Timeout", status |-> 0], [exc |-> "ConnectionError", status |-> 0],
     [exc |-> "none", status |-> 404], [exc |-> "none", status |-> 500]}

OkResponse == [exc |-> "none", status |-> 200]

NoResponse == [exc |-> "none", status |-> 0]

\* response.raise_for_status(): HTTPError for a 4xx or 5xx status.
RaisesForStatus(r) == r.status >= 400 /\ r.status < 600

\* The exception the request of lines 48-49 raises, or "none".
RequestFault(r) ==
    IF r.exc # "none" THEN r.exc
    ELSE IF RaisesForStatus(r) THEN "HTTPError" ELSE "none"

HandlesRequestErrorsOnly(kind) == kind \in {"Timeout", "ConnectionError", "HTTPError"}

\* except Exception (line 162): every fault of the request and of the parse.
Handles(kind) == kind \in {"Timeout", "ConnectionError", "HTTPError", "ParserError"}

NotReturned == [kind |-> "pending", fields |-> AllNone]

ReturnNone == [kind |-> "None", fields |-> AllNone]

ReturnDatos(d) == [kind |-> "datos", fields |-> d]

NoSnapshot == [written |-> FALSE, fields |-> <<>>]

mainVars ==
    <<pc, transportFails, attempts, delays, response, fault, propagated, datos, cur,
      linkIdx, valores_obtenidos, regexInvoked, regexIdx, debugWritten, ret, saved,
      snapshot, exitStatus>>

cleanVars == <<text, result, cpc>>

vars == <<mainVars, cleanVars>>

MainInit ==
    /\ pc = "main"
    /\ transportFails \in 0..MaxTransportFails
    /\ attempts = 0
    /\ delays = <<>>
    /\ response = NoResponse
    /\ fault = "none"
    /\ propagated = FALSE
    /\ datos = AllNone
    /\ cur = NoLink
    /\ linkIdx = 0
    /\ valores_obtenidos = 0
    /\ regexInvoked = FALSE
    /\ regexIdx = 1
    /\ debugWritten = FALSE
    /\ ret = NotReturned
    /\ saved = "none"
    /\ snapshot = NoSnapshot
    /\ exitStatus = -1

CleanIdle ==
    /\ text = <<>>
    /\ result = None
    /\ cpc = "idle"

Init == MainInit /\ CleanIdle

\* The exception handling of scrape_dashboard (lines 162-166) and, for what
\* it lets through, of main (lines 240-244).
Raise(kind) ==
    /\ fault' = kind
    /\ IF Handles(kind)
       THEN /\ ret' = ReturnNone
            /\ pc' = "returned"
            /\ UNCHANGED <<propagated, exitStatus>>
       ELSE /\ propagated' = TRUE
            /\ exitStatus' = 1
            /\ pc' = "exit"
            /\ UNCHANGED ret

\* main calls scraper.scrape_dashboard() (lines 221-222).
Call ==
    /\ pc = "main"
    /\ UNCHANGED cleanVars
    /\ pc' = "get"
    /\ UNCHANGED <<transportFails, attempts, delays, response, fault, propagated,
                   datos, cur, linkIdx, valores_obtenidos, regexInvoked, regexIdx,
                   debugWritten, ret, saved, snapshot, exitStatus>>

\* A fetch that tries again, up to three times, sleeping between the tries.
GetWithRetry ==
    /\ pc = "get"
    /\ UNCHANGED cleanVars
    /\ attempts' = attempts + 1
    /\ \E r \in (IF attempts < transportFails THEN FailureResponses ELSE {OkResponse}) :
          /\ response' = r
          /\ IF RequestFault(r) = "none"
             THEN /\ pc' = "parse"
                  /\ UNCHANGED <<fault, propagated, ret, exitStatus, delays>>
             ELSE IF attempts + 1 < 3
                  THEN /\ pc' = "get"
                       /\ delays' = Append(delays, attempts + 1)
                       /\ UNCHANGED <<fault, propagated, ret, exitStatus>>
                  ELSE /\ Raise(RequestFault(r))
                       /\ UNCHANGED delays
    /\ UNCHANGED <<transportFails, datos, cur, linkIdx, valores_obtenidos,
                   regexInvoked, regexIdx, debugWritten, saved, snapshot>>

\* session.get and raise_for_status (lines 48-49): one request; a fault goes
\* to the handler of line 162.
Get ==
    /\ pc = "get"
    /\ UNCHANGED cleanVars
    /\ attempts' = attempts + 1
    /\ \E r \in (IF attempts < transportFails THEN FailureResponses ELSE {OkResponse}) :
          /\ response' = r
          /\ IF RequestFault(r) = "none"
             THEN /\ pc' = "parse"
                  /\ UNCHANGED <<fault, propagated, ret, exitStatus>>
             ELSE Raise(RequestFault(r))
    /\ UNCHANGED <<transportFails, delays, datos, cur, linkIdx, valores_obtenidos,
                   regexInvoked, regexIdx, debugWritten, saved, snapshot>>

\* BeautifulSoup(response.content, 'html.parser') and the dict of lines 56-65;
\* the parser either builds the tree or raises.
Parse ==
    /\ pc = "parse"
    /\ UNCHANGED cleanVars
    /\ \E parsed \in BOOLEAN :
          IF parsed
          THEN /\ datos' = AllNone
               /\ pc' = "links"
               /\ UNCHANGED <<fault, propagated, ret, exitStatus>>
          ELSE /\ Raise("ParserError")
               /\ UNCHANGED datos
    /\ UNCHANGED <<transportFails, attempts, delays, response, cur, linkIdx,
                   valores_obtenidos, regexInvoked, regexIdx, debugWritten, saved,
                   snapshot>>

\* One turn of the loop over the links (lines 72-111).
LinkStep ==
    /\ pc = "links"
    /\ UNCHANGED cleanVars
    /\ linkIdx < MaxLinks
    /\ \E link \in Links :
          /\ cur' = link
          /\ datos' = LinkBody(datos, link)
    /\ linkIdx' = linkIdx + 1
    /\ UNCHANGED <<pc, transportFails, attempts, delays, response, fault, propagated,
                   valores_obtenidos, regexInvoked, regexIdx, debugWritten, ret,
                   saved, snapshot, exitStatus>>

\* The end of the links: the count and the test of lines 114-116.  The loop
\* variable is dead from here on.
CountStep ==
    /\ pc = "links"
    /\ UNCHANGED cleanVars
    /\ valores_obtenidos' = Count(datos)
    /\ regexInvoked' = NeedsRegex(Count(datos))
    /\ pc' = IF NeedsRegex(Count(datos)) THEN "regex" ELSE "validate"
    /\ cur' = NoLink
    /\ linkIdx' = 0
    /\ UNCHANGED <<transportFails, attempts, delays, response, fault, propagated,
                   datos, regexIdx, debugWritten, ret, saved, snapshot, exitStatus>>

\* One turn of the loop over patterns.items() (lines 132-139).
RegexStep ==
    /\ pc = "regex"
    /\ UNCHANGED cleanVars
    /\ \E m \in Searches(KeyOrder[regexIdx]) :
          datos' = RegexBody(datos, KeyOrder[regexIdx], m)
    /\ regexIdx' = regexIdx + 1
    /\ pc' = IF regexIdx = Len(KeyOrder) THEN "validate" ELSE "regex"
    /\ UNCHANGED <<transportFails, attempts, delays, response, fault, propagated,
                   cur, linkIdx, valores_obtenidos, regexInvoked, debugWritten, ret,
                   saved, snapshot, exitStatus>>

NoDataBelowThreshold(n) == n < RegexThreshold

\* valores_obtenidos == 0 (line 146)
NoData(n) == n = 0

\* The validation of lines 142-160: the debug page and None, or datos.
Validate ==
    /\ pc = "validate"
    /\ UNCHANGED cleanVars
    /\ valores_obtenidos' = Count(datos)
    /\ IF NoData(Count(datos))
       THEN /\ debugWritten' = TRUE
            /\ ret' = ReturnNone
       ELSE /\ ret' = ReturnDatos(datos)
            /\ UNCHANGED debugWritten
    /\ pc' = "returned"
    /\ UNCHANGED <<transportFails, attempts, delays, response, fault, propagated,
                   datos, cur, linkIdx, regexInvoked, regexIdx, saved, snapshot,
                   exitStatus>>

SafeDataKeepsNone(data) == data

\* safe_data of lines 172-177: None becomes 0.
SafeData(data) ==
    [k \in DOMAIN data |-> IF data[k] = None THEN IntValue(0) ELSE data[k]]

\* The eight fields of output (lines 180-188); fecha_reporte and metadata are
\* left out.
Output(data) == [k \in Keys |-> SafeData(data)[k]]

ExitCodeIgnoresSave(isNone, ok) == IF isNone THEN 1 ELSE 0

\* The argument of sys.exit in main (lines 224-235).
ExitCode(isNone, ok) == IF isNone THEN 1 ELSE IF ok THEN 0 ELSE 1

\* main after scrape_dashboard returned (lines 224-235) and save_to_json
\* (lines 168-211): the file is written, or the write raises.
Finish ==
    /\ pc = "returned"
    /\ UNCHANGED cleanVars
    /\ IF ret.kind = "None"
       THEN /\ exitStatus' = ExitCode(TRUE, FALSE)
            /\ UNCHANGED <<saved, snapshot>>
       ELSE \E ok \in BOOLEAN :
               /\ saved' = IF ok THEN "ok" ELSE "failed"
               /\ snapshot' = IF ok THEN [written |-> TRUE, fields |-> Output(ret.fields)]
                              ELSE snapshot
               /\ exitStatus' = ExitCode(FALSE, ok)
    /\ pc' = "exit"
    /\ UNCHANGED <<transportFails, attempts, delays, response, fault, propagated,
                   datos, cur, linkIdx, valores_obtenidos, regexInvoked, regexIdx,
                   debugWritten, ret>>

Next ==
    \/ Call
    \/ Get
    \/ Parse
    \/ LinkStep
    \/ CountStep
    \/ RegexStep
    \/ Validate
    \/ Finish

Spec == Init /\ [][Next]_vars

\* ---------------------------------------------------------------- SpecClean

Chars == {"0", "1", "5", ".", ",", "-", "a", " "}

RECURSIVE Texts(_)
\* Every text of at most n characters of Chars.
Texts(n) ==
    IF n = 0 THEN {<<>>}
    ELSE LET shorter == Texts(n - 1)
         IN  shorter \cup {Append(s, c) : s \in {x \in shorter : Len(x) = n - 1},
                                          c \in Chars}

Text_minus == <<"-">>
Text_1c2c3 == <<"1", ",", "2", ",", "3">>

CleanInit ==
    /\ text \in Texts(MaxLen)
                  \cup {Text_1_234_56, Text_1_234, Text_abc, Text_minus, Text_1c2c3}
    /\ result = None
    /\ cpc = "call"
    /\ MainInit
    /\ transportFails = 0

CleanCall ==
    /\ cpc = "call"
    /\ result' = clean_number(text)
    /\ cpc' = "done"
    /\ UNCHANGED <<text, mainVars>>

SpecClean == CleanInit /\ [][CleanCall]_vars

\* ------------------------------------------------------------------- claims

\* C1: the regex strategy never changes a field that already holds a value:
\* every turn of its loop leaves each non-None field of datos as it was, so
\* what the link strategy resolved is kept exactly.
C1_RegexKeepsResolved ==
    [][pc = "regex" => \A k \in Keys : datos[k] # None => datos'[k] = datos[k]]_vars

\* C1 witness: the regex strategy ran, a field the links resolved kept the
\* link's value and another field was filled by a pattern.
C1_Witness ==
    /\ pc = "validate"
    /\ regexInvoked
    /\ datos["CAMIONES"] = IntValue(7)
    /\ datos["CABEZAS"] = IntValue(3)

\* C2: the regex strategy is invoked exactly when fewer than half of the
\* fields are resolved once the links are done; it is invoked nowhere else,
\* and when it is not invoked no field changes after the link strategy.
C2_RegexIffBelowHalf ==
    [][/\ (pc = "links" /\ pc' # "links"
            => (regexInvoked' <=> 2 * Count(datos) < Cardinality(Keys)))
       /\ (regexInvoked' # regexInvoked => pc = "links" /\ pc' # "links")
       /\ (pc' = "regex" => regexInvoked')
       /\ (~(pc = "links" /\ pc' = "links") /\ ~regexInvoked' => datos' = datos)]_vars

\* C2 witness: a run that ended with exactly half of the fields resolved by
\* the links and the regex strategy not invoked.
C2_Witness ==
    /\ pc = "exit"
    /\ fault = "none"
    /\ ~regexInvoked
    /\ Count(datos) = 4

\* C3: a run ends with status 0 exactly when at least one field was resolved
\* and the snapshot was written; it ends with a non-zero status when no field
\* was resolved (a failed fetch included) or when the write failed.
C3_ExitStatus ==
    pc = "exit" =>
        /\ exitStatus \in {0, 1}
        /\ exitStatus = 0 <=> (Count(datos) >= 1 /\ saved = "ok" /\ snapshot.written)
        /\ (Count(datos) = 0 \/ saved = "failed" \/ fault # "none") => exitStatus # 0

\* C3 witness: fields were resolved, the write failed, the run ended with 1.
C3_Witness ==
    /\ pc = "exit"
    /\ Count(datos) >= 1
    /\ saved = "failed"
    /\ exitStatus = 1

\* C4: when no field is resolved on a fetched and parsed document the debug
\* page is written, scrape_dashboard returns None, no snapshot is written and
\* the run ends with a non-zero status; the debug page is written in no other
\* case.
C4_NoData ==
    /\ (pc \in {"returned", "exit"} /\ fault = "none" /\ Count(datos) = 0)
          => /\ debugWritten
             /\ ret.kind = "None"
             /\ saved = "none"
             /\ ~snapshot.written
             /\ (pc = "exit" => exitStatus # 0)
    /\ debugWritten
          => /\ fault = "none"
             /\ response = OkResponse
             /\ Count(datos) = 0
             /\ pc \in {"returned", "exit"}

\* C4 witness: both strategies ran, nothing was resolved, the debug page was
\* written and the run ended with 1.
C4_Witness ==
    /\ pc = "exit"
    /\ regexInvoked
    /\ Count(datos) = 0
    /\ debugWritten
    /\ exitStatus = 1

\* C5: a written snapshot holds all eight keys: the value of each resolved
\* field unchanged and 0 for each unresolved field.
C5_SnapshotShape ==
    snapshot.written =>
        /\ DOMAIN snapshot.fields = Keys
        /\ \A k \in Keys :
              IF datos[k] # None THEN snapshot.fields[k] = datos[k]
              ELSE snapshot.fields[k] = IntValue(0)

\* C5 witness: a snapshot written after a partial resolution, with a resolved
\* and an unresolved field.
C5_Witness ==
    /\ snapshot.written
    /\ Count(datos) >= 1
    /\ Count(datos) <= 7
    /\ datos["CAMIONES"] = IntValue(1234)
    /\ datos["OP"] = None

C7_FaultsContained ==
    /\ (response.exc # "none" \/ response.status >= 400) => fault # "none"
    /\ fault # "none"
          => /\ ~propagated
             /\ pc \in {"returned", "exit"}
             /\ ret.kind = "None"
             /\ Count(ret.fields) = 0
             /\ saved = "none"
             /\ ~snapshot.written
             /\ (pc = "exit" => exitStatus = 1)

\* C7 witness: a 404 answer ended the run with None and status 1 after one
\* request.
C7_Witness ==
    /\ pc = "exit"
    /\ response.status = 404
    /\ fault = "HTTPError"
    /\ attempts = 1
    /\ exitStatus = 1

\* C9: within the link strategy a resolved field is not overwritten by a
\* later link element.
C9_FirstLinkWins ==
    [][(pc = "links" /\ pc' = "links")
          => \A k \in Keys : datos[k] # None => datos'[k] = datos[k]]_vars

\* The link element of the step from the unprimed to the primed state holds a
\* label and a numeric value.
NumericLinkStep ==
    /\ pc = "links"
    /\ linkIdx' = linkIdx + 1
    /\ cur'.n >= 2
    /\ clean_number(cur'.first) # None

\* At most one field differs between the unprimed and the primed datos.
AtMostOneAssigned == Cardinality({k \in Keys : datos'[k] # datos[k]}) <= 1

\* C10 as stated: every label with CABEZAS and without SEMANA resolves
\* CABEZAS and not CAB.SEMANA, every label with CABEZAS and SEMANA resolves
\* CAB.SEMANA and not CABEZAS, and a link assigns at most one field.
C10_EveryLabel ==
    [][NumericLinkStep =>
          LET label == UpperLabel(cur'.second)
              numero == clean_number(cur'.first)
          IN  /\ (In("CABEZAS", label) /\ ~In("SEMANA", label))
                    => /\ datos'["CABEZAS"] = numero
                       /\ datos'["CAB.SEMANA"] = datos["CAB.SEMANA"]
              /\ (In("CABEZAS", label) /\ In("SEMANA", label))
                    => /\ datos'["CAB.SEMANA"] = numero
                       /\ datos'["CABEZAS"] = datos["CABEZAS"]
              /\ AtMostOneAssigned]_vars

\* C10 amended: the same for every label that does not contain CAMIONES (a
\* label that contains CAMIONES resolves CAMIONES, whatever else it holds).
C10_LabelsWithoutCamiones ==
    [][NumericLinkStep =>
          LET label == UpperLabel(cur'.second)
              numero == clean_number(cur'.first)
          IN  /\ (~In("CAMIONES", label) /\ In("CABEZAS", label) /\ ~In("SEMANA", label))
                    => /\ datos'["CABEZAS"] = numero
                       /\ datos'["CAB.SEMANA"] = datos["CAB.SEMANA"]
              /\ (~In("CAMIONES", label) /\ In("CABEZAS", label) /\ In("SEMANA", label))
                    => /\ datos'["CAB.SEMANA"] = numero
                       /\ datos'["CABEZAS"] = datos["CABEZAS"]
              /\ In("CAMIONES", label)
                    => /\ datos'["CAMIONES"] = numero
                       /\ datos'["CABEZAS"] = datos["CABEZAS"]
                       /\ datos'["CAB.SEMANA"] = datos["CAB.SEMANA"]
              /\ AtMostOneAssigned]_vars

\* C10 witness: the link "7 / CABEZAS SEMANA" resolved CAB.SEMANA and left
\* CABEZAS unresolved.
C10_Witness ==
    /\ pc = "links"
    /\ cur.first = Text_7
    /\ cur.second = <<"CABEZAS", "SEMANA">>
    /\ datos["CAB.SEMANA"] = IntValue(7)
    /\ datos["CABEZAS"] = None

\* ------------------------------------------------- clean_number, restated

IsDigit(c) == c \in Digits

IsDigitCommaMinus(c) == c \in Digits \cup {",", "-"}

IsComma(c) == c = ","

\* The digits, commas and signs of a text, in order.
Skeleton(txt) == SelectSeq(txt, IsDigitCommaMinus)

Commas(txt) == Len(SelectSeq(txt, IsComma))

\* A text that writes a number: at least one digit, at most one decimal
\* comma, and a sign only in front.
WritesNumber(txt) ==
    /\ Len(SelectSeq(txt, IsDigit)) >= 1
    /\ Commas(txt) <= 1
    /\ \A i \in 1..Len(Skeleton(txt)) : Skeleton(txt)[i] = "-" => i = 1

\* The digits after the decimal comma.
FractionDigits(txt) ==
    LET sk == Skeleton(txt)
    IN  Cardinality({i \in 1..Len(sk) :
                        sk[i] \in Digits /\ \E j \in 1..(i - 1) : sk[j] = ","})

RECURSIVE Pow10(_)
Pow10(k) == IF k = 0 THEN 1 ELSE 10 * Pow10(k - 1)

\* The digits of the text read as one integer, with the sign.
SignedDigits(txt) ==
    (IF \E i \in 1..Len(txt) : txt[i] = "-" THEN -1 ELSE 1)
        * DigitsValue(SelectSeq(txt, IsDigit))

\* C8: clean_number follows one policy: an empty or blank text gives None; a
\* text that writes a number gives that number, an int when it has no decimal
\* comma and a float otherwise, the points dropped as thousands separators;
\* any other text gives None, never the text itself.
C8_CleanNumberPolicy ==
    cpc = "done" =>
        /\ result.t \in {"none", "int", "float"}
        /\ (\A i \in 1..Len(text) : IsSpace(text[i])) => result = None
        /\ result # None <=> WritesNumber(text)
        /\ WritesNumber(text)
              => /\ result.t = "int" <=> Commas(text) = 0
                 /\ result.s <= FractionDigits(text)
                 /\ result.n * Pow10(FractionDigits(text) - result.s) = SignedDigits(text)
        /\ text = Text_1_234 => result = IntValue(1234)
        /\ text = Text_1_234_56 => result = FloatValue(123456, 2)
        /\ text \in {Text_abc, Text_minus, Text_1c2c3} => result = None

\* C8 witness: clean_number("1.234,56") returned 1234.56.
C8_Witness ==
    /\ cpc = "done"
    /\ text = Text_1_234_56
    /\ result = [t |-> "float", n |-> 123456, s |-> 2]

====
